---- MODULE Spec2Model ----
(***************************************************************************)
(* A model of zn-js-captcha (src/src/index.js): the English number         *)
(* speller spellNumber, the integer sampler getRandomInt, and the engine   *)
(* returned by the constructor function with its asynchronous generate().  *)
(*                                                                         *)
(* Representation.                                                         *)
(*   - A JavaScript string is the sequence of its characters, each a       *)
(*     one-character TLA+ string; a decimal digit string is the sequence   *)
(*     of its digits (0..9).                                               *)
(*   - Math.random() is a draw k in 0..RandN-1 standing for r = k/RandN.   *)
(*   - Numbers handed to getRandomInt are carried in halves (2*x), since   *)
(*     renderLines passes width/2 +- 20, a half-integer for an odd width.  *)
(***************************************************************************)
EXTENDS Integers, Sequences, FiniteSets

VARIABLES
    \* spellNumber, one activation (src/src/index.js:302-383)
    number,     \* the argument
    num,        \* the remaining digit string
    ans,        \* the answer built so far
    partAns,    \* the segment spelled by the last iteration
    segs,       \* history: every partAns produced, in order
    spc,        \* "call" | "loop" | "done"
    \* getRandomInt, one activation (src/src/index.js:177-179)
    rmin,       \* argument min
    rmax,       \* argument max
    rdraw,      \* the value Math.random() returns, as k of k/RandN
    rval,       \* the value returned
    rpc,        \* "call" | "done"
    \* the engine built by the constructor function (src/src/index.js:43-392)
    config,     \* self.config
    font,       \* the closure variable font: Null or the loaded font
    pc,         \* per generate() call: "idle" | "loading" | "resolved" | "failed"
    out,        \* per call: the object the promise resolved with, or None
    equation,   \* per call: the locals of generateMathEquation, or None
    loadsBy,    \* per call: how many times it invoked OpenTypeJs.load
    rejected,   \* per call: whether a load it awaited was rejected
    fontWrites, \* how many times the variable font was assigned
    \* the caller of the constructor function (src/src/index.js:43, 385-388)
    arg,        \* the object the caller passes as config, or None
    selfConfig  \* the object self.config refers to: "literal" | "fresh" | "arg"

spellVars == <<number, num, ans, partAns, segs, spc>>
randVars == <<rmin, rmax, rdraw, rval, rpc>>
engineVars == <<config, font, pc, out, equation, loadsBy, rejected, fontWrites>>
callerVars == <<arg, selfConfig>>
vars == <<number, num, ans, partAns, segs, spc, rmin, rmax, rdraw, rval, rpc,
          config, font, pc, out, equation, loadsBy, rejected, fontWrites,
          arg, selfConfig>>

(***************************************************************************)
(* Bounds of the model.                                                    *)
(***************************************************************************)
MaxSmall == 1200        \* spellNumber is run on every n in 0..MaxSmall
RandN == 12             \* Math.random() ranges over k/RandN, k in 0..RandN-1
MaxSpan == 3            \* getRandomInt is run on ranges with max - min <= MaxSpan
MaxCalls == 2           \* generate() calls made on one engine
MaxDots == 1            \* largest noiseDots among the configurations
MaxLines == 1           \* largest noiseLines among the configurations

(***************************************************************************)
(* JavaScript values and strict equality (===): values of different types  *)
(* are never strictly equal.                                               *)
(***************************************************************************)
JsNumber(v) == [type |-> "number", value |-> v]
JsString(s) == [type |-> "string", value |-> s]
StrictEquals(a, b) == a.type = b.type /\ a.value = b.value

(***************************************************************************)
(* Number <-> decimal digit string.                                        *)
(***************************************************************************)
RECURSIVE NumberToString(_)
NumberToString(n) == IF n < 10 THEN <<n>> ELSE NumberToString(n \div 10) \o <<n % 10>>

RECURSIVE ParseInt(_)
ParseInt(ds) ==
    IF Len(ds) = 1 THEN ds[1]
    ELSE 10 * ParseInt(SubSeq(ds, 1, Len(ds) - 1)) + ds[Len(ds)]

\* String.prototype.substr(start) and substr(start, length), start 0-based.
Substr(s, start) == SubSeq(s, start + 1, Len(s))
SubstrLen(s, start, length) ==
    SubSeq(s, start + 1, IF start + length > Len(s) THEN Len(s) ELSE start + length)

\* Array indexing, 0-based as in the source.
At(table, i) == table[i + 1]

(***************************************************************************)
(* The word tables of spellNumber.                                         *)
(***************************************************************************)
Zero == <<"z", "e", "r", "o">>
Hundred == <<" ", "h", "u", "n", "d", "r", "e", "d">>
Thousand == <<" ", "t", "h", "o", "u", "s", "a", "n", "d">>
Million == <<" ", "m", "i", "l", "l", "i", "o", "n">>
And == <<" ", "a", "n", "d", " ">>
Comma == <<",", " ">>
Hyphen == <<"-">>

placeSuffix ==
    << <<>>, <<>>, <<>>, Hundred, Thousand, Thousand, Thousand,
       Million, Million, Million >>

onesPrefix ==
    << <<>>,
       <<"o", "n", "e">>,
       <<"t", "w", "o">>,
       <<"t", "h", "r", "e", "e">>,
       <<"f", "o", "u", "r">>,
       <<"f", "i", "v", "e">>,
       <<"s", "i", "x">>,
       <<"s", "e", "v", "e", "n">>,
       <<"e", "i", "g", "h", "t">>,
       <<"n", "i", "n", "e">> >>

teensPrefix ==
    << <<"t", "e", "n">>,
       <<"e", "l", "e", "v", "e", "n">>,
       <<"t", "w", "e", "l", "v", "e">>,
       <<"t", "h", "i", "r", "t", "e", "e", "n">>,
       <<"f", "o", "u", "r", "t", "e", "e", "n">>,
       <<"f", "i", "f", "t", "e", "e", "n">>,
       <<"s", "i", "x", "t", "e", "e", "n">>,
       <<"s", "e", "v", "e", "n", "t", "e", "e", "n">>,
       <<"e", "i", "g", "h", "t", "e", "e", "n">>,
       <<"n", "i", "n", "e", "t", "e", "e", "n">> >>

tens ==
    << <<>>, <<>>,
       <<"t", "w", "e", "n", "t", "y">>,
       <<"t", "h", "i", "r", "t", "y">>,
       <<"f", "o", "r", "t", "y">>,
       <<"f", "i", "f", "t", "y">>,
       <<"s", "i", "x", "t", "y">>,
       <<"s", "e", "v", "e", "n", "t", "y">>,
       <<"e", "i", "g", "h", "t", "y">>,
       <<"n", "i", "n", "e", "t", "y">> >>

(***************************************************************************)
(* spellNumber.  SpellEntry is lines 303-308, SpellHundreds / SpellTens /  *)
(* SpellUnits the three branches of the loop body, StripZeroes lines       *)
(* 365-370, Concatenate lines 372-379, LoopBody one whole iteration.       *)
(***************************************************************************)
RECURSIVE spellNumber(_)
RECURSIVE SpellLoop(_, _)
RECURSIVE SpellHundreds(_)
RECURSIVE LoopBody(_, _)

\* let num = parseInt(number || 0).toString();
SpellEntry(n) == NumberToString(n)

\* if (0 === num): a number compared with a string.
IsSpecialCase(numStr) == StrictEquals(JsNumber(0), JsString(numStr))

\* The hundreds branch without its num = num.substr(3).
SpellHundredsKeepsDigits(numStr) ==
    LET digit == ParseInt(SubstrLen(numStr, 0, 1))
        place == Len(numStr)
        nextTwoDigits == spellNumber(ParseInt(SubstrLen(numStr, 1, 2)))
        prefix == IF nextTwoDigits # Zero
                  THEN At(onesPrefix, digit) \o Hundred \o And \o nextTwoDigits
                  ELSE At(onesPrefix, digit) \o Hundred
    IN  [partAns |-> prefix \o At(placeSuffix, place), num |-> numStr]

\* place in {6, 9}: "<digit> hundred", the next two digits, the place suffix.
SpellHundreds(numStr) ==
    LET digit == ParseInt(SubstrLen(numStr, 0, 1))
        place == Len(numStr)
        nextTwoDigits == spellNumber(ParseInt(SubstrLen(numStr, 1, 2)))
        prefix == IF nextTwoDigits # Zero
                  THEN At(onesPrefix, digit) \o Hundred \o And \o nextTwoDigits
                  ELSE At(onesPrefix, digit) \o Hundred
    IN  [partAns |-> prefix \o At(placeSuffix, place), num |-> Substr(numStr, 3)]

\* place in {2, 5, 8}: teens, or tens with an optional hyphenated unit.
SpellTens(numStr) ==
    LET digit == ParseInt(SubstrLen(numStr, 0, 1))
        place == Len(numStr)
        nextDigit == ParseInt(SubstrLen(numStr, 1, 1))
        prefix == IF digit = 1 THEN At(teensPrefix, nextDigit)
                  ELSE IF digit > 1
                       THEN IF nextDigit # 0
                            THEN At(tens, digit) \o Hyphen \o At(onesPrefix, nextDigit)
                            ELSE At(tens, digit)
                       ELSE <<>>
    IN  [partAns |-> prefix \o At(placeSuffix, place), num |-> Substr(numStr, 2)]

\* place in {1, 3, 4, 7}: the ones word and the place suffix.
SpellUnits(numStr) ==
    LET digit == ParseInt(SubstrLen(numStr, 0, 1))
        place == Len(numStr)
    IN  [partAns |-> At(onesPrefix, digit) \o At(placeSuffix, place),
         num |-> Substr(numStr, 1)]

RECURSIVE StripZeroes(_)
StripZeroes(numStr) ==
    IF numStr # <<>> /\ numStr[1] = 0 THEN StripZeroes(Substr(numStr, 1)) ELSE numStr

ConcatenateAlwaysComma(answer, part, rest) ==
    IF answer = <<>> THEN answer \o part ELSE answer \o Comma \o part

Concatenate(answer, part, rest) ==
    IF answer = <<>> THEN answer \o part
    ELSE IF Len(rest) > 0 THEN answer \o Comma \o part
    ELSE answer \o And \o part

LoopBody(numStr, answer) ==
    LET place == Len(numStr)
        step == IF place \in {6, 9} THEN SpellHundreds(numStr)
                ELSE IF place \in {2, 5, 8} THEN SpellTens(numStr)
                ELSE SpellUnits(numStr)
        rest == StripZeroes(step.num)
    IN  [num |-> rest, partAns |-> step.partAns,
         ans |-> Concatenate(answer, step.partAns, rest)]

SpellLoop(numStr, answer) ==
    IF Len(numStr) > 0
    THEN LET it == LoopBody(numStr, answer) IN SpellLoop(it.num, it.ans)
    ELSE answer

spellNumber(n) ==
    LET numStr == SpellEntry(n)
    IN  IF IsSpecialCase(numStr) THEN Zero ELSE SpellLoop(numStr, <<>>)

(***************************************************************************)
(* One activation of spellNumber as a state machine: the entry, one action *)
(* per branch of the loop body (each a whole iteration), and the return.   *)
(***************************************************************************)
Groups == {0, 1, 5, 10, 19, 73, 100, 105, 200, 264, 458, 999}

SpellInputs ==
    (0 .. MaxSmall)
        \cup {a * 1000000 + m * 1000 + b : a \in Groups, m \in Groups, b \in Groups}

SpellCall ==
    /\ spc = "call"
    /\ num' = SpellEntry(number)
    /\ IF IsSpecialCase(SpellEntry(number))
       THEN ans' = Zero /\ spc' = "done"
       ELSE ans' = <<>> /\ spc' = "loop"
    /\ UNCHANGED <<number, partAns, segs>>

Iterate ==
    LET it == LoopBody(num, ans)
    IN  /\ num' = it.num
        /\ ans' = it.ans
        /\ partAns' = it.partAns
        /\ segs' = Append(segs, it.partAns)
        /\ UNCHANGED <<number, spc>>

IterateHundreds == spc = "loop" /\ Len(num) \in {6, 9} /\ Iterate

IterateTens == spc = "loop" /\ Len(num) \in {2, 5, 8} /\ Iterate

IterateUnits == spc = "loop" /\ Len(num) \in {1, 3, 4, 7} /\ Iterate

SpellReturn ==
    /\ spc = "loop"
    /\ Len(num) = 0
    /\ spc' = "done"
    /\ UNCHANGED <<number, num, ans, partAns, segs>>

(***************************************************************************)
(* getRandomInt and getRandomGray.  min and max are in halves; r is the    *)
(* draw k of Math.random() = k/RandN.  Math.round rounds half up:          *)
(* Math.round(x) = floor(x + 1/2).                                         *)
(***************************************************************************)
Halves(x) == 2 * x

getRandomIntOver(min, max, r) ==
    (min * RandN + r * (max - min + 2) + RandN) \div (2 * RandN)

getRandomInt(min, max, r) ==
    (min * RandN + r * (max - min) + RandN) \div (2 * RandN)

HexDigits ==
    <<"0", "1", "2", "3", "4", "5", "6", "7", "8", "9", "a", "b", "c", "d", "e", "f">>

\* getRandomInt(1, 8).toString(16), then `#${hex}${hex}${hex}`
getRandomGray(r) ==
    LET hex == At(HexDigits, getRandomInt(Halves(1), Halves(8), r))
    IN  <<"#", hex, hex, hex>>

(***************************************************************************)
(* One activation of getRandomInt on integer arguments.                    *)
(***************************************************************************)
RandMins == -2 .. 2

RandCall ==
    /\ rpc = "call"
    /\ rval' = getRandomInt(Halves(rmin), Halves(rmax), rdraw)
    /\ rpc' = "done"
    /\ UNCHANGED <<rmin, rmax, rdraw>>

(***************************************************************************)
(* The constructor function: the defaults of self.config and the merge of  *)
(* the caller's configuration over them (Object.assign).                   *)
(***************************************************************************)
Defaults ==
    [colorBackground |-> "#ffffff",
     colorForeground |-> "#000000",
     fontPath |-> "../assets/Marius1.ttf",
     fontSize |-> 50,
     mathAugendMin |-> 10,
     mathAugendMax |-> 99,
     mathAddendMin |-> 1,
     mathAddendMax |-> 9,
     mathOperator |-> "+",
     noiseLines |-> 10,
     noiseDots |-> 1000,
     outputWidth |-> 480,
     outputHeight |-> 120]

\* Object.assign(target, source): every own key of source, over target's.
Assign(target, source) ==
    [k \in DOMAIN target \cup DOMAIN source |->
        IF k \in DOMAIN source THEN source[k] ELSE target[k]]

\* self.config = Object.assign({}, self.config, config || {});
Construct(override) == Assign(Assign(<<>>, Defaults), override)

\* The configurations the engine is constructed with.  Each sets the noise
\* counts: the defaults (1000 dots, 10 lines) are beyond the model's bounds.
Overrides ==
    { [noiseDots |-> MaxDots, noiseLines |-> MaxLines],
      [noiseDots |-> MaxDots, noiseLines |-> 0, mathOperator |-> "-",
       mathAugendMin |-> 0, mathAugendMax |-> 3,
       mathAddendMin |-> 0, mathAddendMax |-> 2,
       outputWidth |-> 61, outputHeight |-> 21],
      [noiseDots |-> 0, noiseLines |-> MaxLines, mathOperator |-> "*",
       mathAugendMin |-> 19, mathAugendMax |-> 22,
       mathAddendMin |-> 7, mathAddendMax |-> 7,
       colorForeground |-> "#123456"],
      [noiseDots |-> 0, noiseLines |-> 0, fontPath |-> "../assets/Comismsh.ttf",
       mathAugendMin |-> 21, mathAugendMax |-> 22,
       mathAddendMin |-> 1, mathAddendMax |-> 1] }

(***************************************************************************)
(* The Font Service (opentype.js) as generate() and renderText use it: a   *)
(* loaded font has metrics, a glyph table and the fallback glyph of index  *)
(* 0 (.notdef), which charToGlyph yields for a character outside the       *)
(* table.  The fallback glyph is the font's own: one model font gives it   *)
(* no advance width, the other an advance width like any glyph's.          *)
(***************************************************************************)
Null == [type |-> "null"]
None == [type |-> "undefined"]

(***************************************************************************)
(* The constructor function and its caller.  Initialization merges into a  *)
(* new object, so self.config is neither the literal nor the caller's      *)
(* object; the caller keeps its object and may assign to it afterwards.    *)
(***************************************************************************)
\* config || {}
OrEmpty(c) == IF c = None \/ c = Null THEN <<>> ELSE c

\* The caller's object filled in place: Object.assign(config || {}, ...).
InitializationIntoArgument(cfg, c) ==
    LET merged == Assign(Assign(OrEmpty(c), cfg), OrEmpty(c))
    IN  IF c = None \/ c = Null
        THEN [config |-> merged, object |-> "fresh", arg |-> c]
        ELSE [config |-> merged, object |-> "arg", arg |-> merged]

\* self.config = Object.assign({}, self.config, config || {}): the merged
\* value, the object that holds it and the caller's object afterwards.
Initialization(cfg, c) ==
    [config |-> Assign(Assign(<<>>, cfg), OrEmpty(c)),
     object |-> "fresh",
     arg |-> c]

\* The objects callers construct the engine with: the model's overrides,
\* none at all, and objects with a key that is not a configuration key.
CallerObjects ==
    Overrides
        \cup { None,
               [theme |-> "dark"],
               [theme |-> "dark", mathOperator |-> "-", outputWidth |-> 61] }

\* What a caller assigns to its object after construction.
CallerWrites ==
    { [mathOperator |-> "-"], [mathOperator |-> "+"],
      [outputWidth |-> 61], [outputWidth |-> 300],
      [noiseLines |-> 0],
      [theme |-> "dark"], [theme |-> "light"] }

\* ZnJsCaptcha(OpenTypeJs, config): the literal is merged with the argument,
\* no font is loaded yet.
ConstructorFunction ==
    /\ selfConfig = "literal"
    /\ LET made == Initialization(config, arg)
       IN  /\ config' = made.config
           /\ selfConfig' = made.object
           /\ arg' = made.arg
    /\ font' = Null
    /\ UNCHANGED <<pc, out, equation, loadsBy, rejected, fontWrites>>

\* The caller assigns to a key of the object it passed; the engine sees the
\* assignment only if self.config is that very object.
CallerAssigns ==
    /\ selfConfig # "literal"
    /\ arg # None
    /\ \E w \in CallerWrites :
         /\ arg' = Assign(arg, w)
         /\ arg' # arg
    /\ config' = IF selfConfig = "arg" THEN arg' ELSE config
    /\ UNCHANGED <<selfConfig, font, pc, out, equation, loadsBy, rejected, fontWrites>>

Letters ==
    {"a", "b", "c", "d", "e", "f", "g", "h", "i", "j", "k", "l", "m", "n", "o",
     "p", "q", "r", "s", "t", "u", "v", "w", "x", "y", "z", " ", ","}

LoadedFont ==
    [type |-> "font",
     unitsPerEm |-> 1000,
     ascender |-> 800,
     descender |-> -200,
     glyphs |-> [ch \in Letters |-> IF ch = " " THEN 250 ELSE 500],
     notdef |-> [name |-> ".notdef"]]

\* A font whose fallback glyph has an advance width.
BoxedFont == [LoadedFont EXCEPT !.notdef = [name |-> ".notdef", advanceWidth |-> 600]]

\* The font OpenTypeJs.load(path) resolves with.
Load(path) == IF path = Defaults.fontPath THEN LoadedFont ELSE BoxedFont

charToGlyph(fnt, ch) ==
    IF ch \in DOMAIN fnt.glyphs
    THEN [name |-> ch, advanceWidth |-> fnt.glyphs[ch]]
    ELSE fnt.notdef

\* glyph.advanceWidth ? glyph.advanceWidth : 0, in font units: an absent
\* (undefined) or zero advance width is falsy.
AdvanceOrZero(glyph) ==
    IF "advanceWidth" \in DOMAIN glyph
    THEN IF glyph.advanceWidth # 0 THEN glyph.advanceWidth ELSE 0
    ELSE 0

(***************************************************************************)
(* The stream of Math.random() values one generate() call consumes.  The   *)
(* generator is seeded once; the model takes the streams k, k+5, k+10, ... *)
(* (mod RandN), one per seed k, so that every draw of a call takes every   *)
(* value over the seeds.  Random(seed, j) is the j-th draw, j from 0.      *)
(***************************************************************************)
Seeds == 0 .. RandN - 1

Random(seed, j) == (seed + 5 * j) % RandN

(***************************************************************************)
(* generateMathEquation: the two operands, the text and the result.  The   *)
(* record also carries the locals augend and addend.                       *)
(***************************************************************************)
Plus == <<" ", "p", "l", "u", "s", " ">>
Minus == <<" ", "m", "i", "n", "u", "s", " ">>

generateMathEquationAlwaysAdds(cfg, seed) ==
    LET augend == getRandomInt(Halves(cfg.mathAugendMin), Halves(cfg.mathAugendMax),
                               Random(seed, 0))
        addend == getRandomInt(Halves(cfg.mathAddendMin), Halves(cfg.mathAddendMax),
                               Random(seed, 1))
        operator == cfg.mathOperator
    IN  [augend |-> augend,
         addend |-> addend,
         text |-> spellNumber(augend)
                    \o (IF "-" = operator THEN Minus ELSE Plus)
                    \o spellNumber(addend),
         result |-> augend + addend]

generateMathEquation(cfg, seed) ==
    LET augend == getRandomInt(Halves(cfg.mathAugendMin), Halves(cfg.mathAugendMax),
                               Random(seed, 0))
        addend == getRandomInt(Halves(cfg.mathAddendMin), Halves(cfg.mathAddendMax),
                               Random(seed, 1))
        operator == cfg.mathOperator
    IN  [augend |-> augend,
         addend |-> addend,
         text |-> spellNumber(augend)
                    \o (IF "-" = operator THEN Minus ELSE Plus)
                    \o spellNumber(addend),
         result |-> IF "-" = operator THEN augend - addend ELSE augend + addend]

(***************************************************************************)
(* renderDots, renderLines, renderText.  `first` is the index in the       *)
(* call's random stream of the first draw the renderer makes.  A path is   *)
(* a record of what its markup holds.                                      *)
(***************************************************************************)
buffer == 20

renderDots(cfg, seed, first) ==
    LET dotCnt == cfg.noiseDots
        width == cfg.outputWidth
        height == cfg.outputHeight
    IN  [i \in 1 .. dotCnt |->
            LET j == first + 3 * (i - 1)
            IN  [kind |-> "circle",
                 cx |-> getRandomInt(Halves(1), Halves(width), Random(seed, j)),
                 cy |-> getRandomInt(Halves(1), Halves(height), Random(seed, j + 1)),
                 r |-> 1,
                 fill |-> getRandomGray(Random(seed, j + 2))]]

\* (width / 2) - buffer and (width / 2) + buffer, in halves, are
\* width - 2 * buffer and width + 2 * buffer.
renderLines(cfg, seed, first) ==
    LET lineCnt == cfg.noiseLines
        width == cfg.outputWidth
        height == cfg.outputHeight
        midMin == width - Halves(buffer)
        midMax == width + Halves(buffer)
    IN  [i \in 1 .. lineCnt |->
            LET j == first + 9 * (i - 1)
            IN  [kind |-> "curve",
                 start |-> <<getRandomInt(Halves(1), Halves(buffer), Random(seed, j)),
                             getRandomInt(Halves(1), Halves(height), Random(seed, j + 1))>>,
                 end |-> <<getRandomInt(Halves(width - buffer), Halves(width),
                                        Random(seed, j + 2)),
                           getRandomInt(Halves(1), Halves(height), Random(seed, j + 3))>>,
                 mid1 |-> <<getRandomInt(midMin, midMax, Random(seed, j + 4)),
                            getRandomInt(Halves(1), Halves(height), Random(seed, j + 5))>>,
                 mid2 |-> <<getRandomInt(midMin, midMax, Random(seed, j + 6)),
                            getRandomInt(Halves(1), Halves(height), Random(seed, j + 7))>>,
                 stroke |-> getRandomGray(Random(seed, j + 8)),
                 fill |-> "none"]]

\* left = (i + 1) * (width - 2) / (len + 1) - fontScale * advanceWidth / 2 and
\* top = height / 2 + fontScale * (ascender + descender) / 2, with fontScale =
\* fontSize / unitsPerEm, as exact fractions [n, d]; i is 0-based.
RECURSIVE SumAdvances(_, _, _)
SumAdvances(text, fnt, k) ==
    IF k = 0 THEN 0
    ELSE AdvanceOrZero(charToGlyph(fnt, text[k])) + SumAdvances(text, fnt, k - 1)

\* Text laid out as a run: each glyph starts where the one before it ends.
renderTextAsRun(text, cfg, fnt) ==
    [k \in 1 .. Len(text) |->
        LET glyph == charToGlyph(fnt, text[k])
        IN  [kind |-> "glyph",
             fill |-> cfg.colorForeground,
             char |-> text[k],
             glyph |-> glyph.name,
             slot |-> k - 1,
             left |-> [n |-> cfg.fontSize * SumAdvances(text, fnt, k - 1),
                       d |-> fnt.unitsPerEm],
             top |-> [n |-> fnt.unitsPerEm * cfg.outputHeight
                              + cfg.fontSize * (fnt.ascender + fnt.descender),
                      d |-> 2 * fnt.unitsPerEm],
             fontSize |-> cfg.fontSize]]

renderText(text, cfg, fnt) ==
    LET len == Len(text)
        width == cfg.outputWidth
        height == cfg.outputHeight
        color == cfg.colorForeground
        fontSize == cfg.fontSize
    IN  [k \in 1 .. len |->
            LET i == k - 1
                glyph == charToGlyph(fnt, text[k])
                advance == AdvanceOrZero(glyph)
            IN  [kind |-> "glyph",
                 fill |-> color,
                 char |-> text[k],
                 glyph |-> glyph.name,
                 slot |-> i,
                 left |-> [n |-> 2 * fnt.unitsPerEm * (i + 1) * (width - 2)
                                   - (len + 1) * fontSize * advance,
                           d |-> 2 * (len + 1) * fnt.unitsPerEm],
                 top |-> [n |-> fnt.unitsPerEm * height
                                  + fontSize * (fnt.ascender + fnt.descender),
                          d |-> 2 * fnt.unitsPerEm],
                 fontSize |-> fontSize]]

(***************************************************************************)
(* paths.sort(() => Math.random() - 0.5).  The comparator ignores its      *)
(* arguments, so ECMAScript leaves the resulting order to the              *)
(* implementation; the model takes insertion sort, each comparison         *)
(* consuming one draw: an element moves left while the draw exceeds 1/2.   *)
(***************************************************************************)
RECURSIVE MovesLeft(_, _, _)
MovesLeft(seed, j, limit) ==
    IF limit > 0 /\ 2 * Random(seed, j) > RandN
    THEN 1 + MovesLeft(seed, j + 1, limit - 1)
    ELSE 0

RECURSIVE SortFrom(_, _, _, _)
SortFrom(sorted, rest, seed, j) ==
    IF rest = <<>> THEN sorted
    ELSE LET moves == MovesLeft(seed, j, Len(sorted))
             drawn == IF moves < Len(sorted) THEN moves + 1 ELSE moves
             pos == Len(sorted) - moves
         IN  SortFrom(SubSeq(sorted, 1, pos) \o <<Head(rest)>>
                          \o SubSeq(sorted, pos + 1, Len(sorted)),
                      Tail(rest), seed, j + drawn)

\* A shuffle that draws each position afresh from the whole list.
SortBySampling(paths, seed, first) ==
    [i \in 1 .. Len(paths) |-> paths[(Random(seed, first + i) % Len(paths)) + 1]]

Sort(paths, seed, first) == SortFrom(<<>>, paths, seed, first)

(***************************************************************************)
(* generate(), from the line after the font is available: the document     *)
(* is the envelope, the background rectangle, the shuffled paths and the   *)
(* closing tag.                                                            *)
(***************************************************************************)
Document(cfg, paths) ==
    << [kind |-> "svg", width |-> cfg.outputWidth, height |-> cfg.outputHeight],
       [kind |-> "rect", fill |-> cfg.colorBackground] >>
        \o paths \o << [kind |-> "/svg"] >>

\* [].concat(renderDots()).concat(renderLines()).concat(renderText(...)):
\* the primitives in the order they are rendered, before the shuffle.
Paths(cfg, fnt, seed, eq) ==
    LET firstDot == 2
        firstLine == firstDot + 3 * cfg.noiseDots
    IN  renderDots(cfg, seed, firstDot)
            \o renderLines(cfg, seed, firstLine)
            \o renderText(eq.text, cfg, fnt)

Compose(cfg, fnt, seed, eq) ==
    LET firstSort == 2 + 3 * cfg.noiseDots + 9 * cfg.noiseLines
        paths == Sort(Paths(cfg, fnt, seed, eq), seed, firstSort)
    IN  [data |-> Document(cfg, paths), result |-> eq.result]

\* let equation = generateMathEquation(); ...; return {data, result}
FinishResampled(cfg, fnt, seed) ==
    LET eq == generateMathEquation(cfg, seed)
        again == generateMathEquation(cfg, Random(seed, 2))
    IN  [equation |-> eq,
         returned |-> [data |-> Compose(cfg, fnt, seed, eq).data,
                       result |-> again.result]]

Finish(cfg, fnt, seed) ==
    LET eq == generateMathEquation(cfg, seed)
    IN  [equation |-> eq, returned |-> Compose(cfg, fnt, seed, eq)]

(***************************************************************************)
(* The engine.  Calls are numbered in the order they are made.  A call     *)
(* runs without interruption up to the await of OpenTypeJs.load and, once  *)
(* the load has settled, from there to its return: JavaScript runs each    *)
(* continuation to completion.                                             *)
(***************************************************************************)
Calls == 1 .. MaxCalls

Configs == {Construct(o) : o \in Overrides}

Fonts == {Load(cfg.fontPath) : cfg \in Configs}

\* Finish, tabulated over the fonts, configurations and seeds of the model:
\* each value is computed once.
Finished ==
    [fnt \in Fonts |->
        [cfg \in Configs |-> [seed \in Seeds |-> Finish(cfg, fnt, seed)]]]

\* The rest of generate() once font is set (lines 113-131).
Resolve(c, fnt) ==
    \E seed \in Seeds :
        LET f == Finished[fnt][config][seed]
        IN  /\ equation' = [equation EXCEPT ![c] = f.equation]
            /\ out' = [out EXCEPT ![c] = f.returned]
            /\ pc' = [pc EXCEPT ![c] = "resolved"]

\* generate() is called: with a font cached it runs to its return, without
\* one it calls OpenTypeJs.load(self.config.fontPath) and awaits the promise.
Generate(c) ==
    /\ pc[c] = "idle"
    /\ IF c = 1 THEN TRUE ELSE pc[c - 1] # "idle"
    /\ IF font # Null
       THEN /\ Resolve(c, font)
            /\ UNCHANGED <<loadsBy>>
       ELSE /\ loadsBy' = [loadsBy EXCEPT ![c] = @ + 1]
            /\ pc' = [pc EXCEPT ![c] = "loading"]
            /\ UNCHANGED <<out, equation>>
    /\ UNCHANGED <<config, font, rejected, fontWrites>>

\* The load promise is fulfilled: font is assigned and the call goes on.
LoadResolve(c) ==
    /\ pc[c] = "loading"
    /\ font' = Load(config.fontPath)
    /\ fontWrites' = fontWrites + 1
    /\ Resolve(c, Load(config.fontPath))
    /\ UNCHANGED <<config, loadsBy, rejected>>

LoadRejectRetries(c) ==
    /\ pc[c] = "loading"
    /\ loadsBy[c] < 2
    /\ rejected' = [rejected EXCEPT ![c] = TRUE]
    /\ loadsBy' = [loadsBy EXCEPT ![c] = @ + 1]
    /\ UNCHANGED <<config, font, pc, out, equation, fontWrites>>

\* A rejection handler that empties the cache.
LoadRejectClearsFont(c) ==
    /\ pc[c] = "loading"
    /\ rejected' = [rejected EXCEPT ![c] = TRUE]
    /\ pc' = [pc EXCEPT ![c] = "failed"]
    /\ font' = Null
    /\ UNCHANGED <<config, out, equation, loadsBy, fontWrites>>

\* The load promise is rejected: the await throws and generate()'s promise
\* is rejected with the same error.
LoadReject(c) ==
    /\ pc[c] = "loading"
    /\ rejected' = [rejected EXCEPT ![c] = TRUE]
    /\ pc' = [pc EXCEPT ![c] = "failed"]
    /\ UNCHANGED <<config, font, out, equation, loadsBy, fontWrites>>

(***************************************************************************)
(* Specifications: the speller, the sampler and the engine, each with the  *)
(* other two parts idle.                                                   *)
(***************************************************************************)
SpellInit ==
    /\ number \in SpellInputs
    /\ num = <<>> /\ ans = <<>> /\ partAns = <<>> /\ segs = <<>> /\ spc = "call"
    /\ rmin = 0 /\ rmax = 0 /\ rdraw = 0 /\ rval = 0 /\ rpc = "idle"
    /\ config = Defaults /\ font = Null /\ fontWrites = 0
    /\ arg = None /\ selfConfig = "literal"
    /\ pc = <<>> /\ out = <<>> /\ equation = <<>> /\ loadsBy = <<>> /\ rejected = <<>>

SpellNext ==
    \/ SpellCall /\ UNCHANGED <<randVars, engineVars, callerVars>>
    \/ IterateHundreds /\ UNCHANGED <<randVars, engineVars, callerVars>>
    \/ IterateTens /\ UNCHANGED <<randVars, engineVars, callerVars>>
    \/ IterateUnits /\ UNCHANGED <<randVars, engineVars, callerVars>>
    \/ SpellReturn /\ UNCHANGED <<randVars, engineVars, callerVars>>

SpecSpell == SpellInit /\ [][SpellNext]_vars

RandInit ==
    /\ rmin \in RandMins
    /\ \E span \in 0 .. MaxSpan : rmax = rmin + span
    /\ rdraw \in 0 .. RandN - 1
    /\ rval = 0 /\ rpc = "call"
    /\ number = 0 /\ num = <<>> /\ ans = <<>> /\ partAns = <<>> /\ segs = <<>>
    /\ spc = "idle"
    /\ config = Defaults /\ font = Null /\ fontWrites = 0
    /\ arg = None /\ selfConfig = "literal"
    /\ pc = <<>> /\ out = <<>> /\ equation = <<>> /\ loadsBy = <<>> /\ rejected = <<>>

RandNext == RandCall /\ UNCHANGED <<spellVars, engineVars, callerVars>>

SpecRand == RandInit /\ [][RandNext]_vars

ConstructInit ==
    /\ arg \in CallerObjects
    /\ config = Defaults /\ selfConfig = "literal"
    /\ font = Null /\ fontWrites = 0
    /\ pc = <<>> /\ out = <<>> /\ equation = <<>> /\ loadsBy = <<>> /\ rejected = <<>>
    /\ number = 0 /\ num = <<>> /\ ans = <<>> /\ partAns = <<>> /\ segs = <<>>
    /\ spc = "idle"
    /\ rmin = 0 /\ rmax = 0 /\ rdraw = 0 /\ rval = 0 /\ rpc = "idle"

ConstructNext ==
    \/ ConstructorFunction /\ UNCHANGED <<spellVars, randVars>>
    \/ CallerAssigns /\ UNCHANGED <<spellVars, randVars>>

SpecConstruct == ConstructInit /\ [][ConstructNext]_vars

\* The engine as the constructor function returns it: the configuration
\* merged, no font loaded, no call made.
Init ==
    /\ arg \in Overrides
    /\ config = Construct(arg)
    /\ selfConfig = "fresh"
    /\ font = Null
    /\ pc = [c \in Calls |-> "idle"]
    /\ out = [c \in Calls |-> None]
    /\ equation = [c \in Calls |-> None]
    /\ loadsBy = [c \in Calls |-> 0]
    /\ rejected = [c \in Calls |-> FALSE]
    /\ fontWrites = 0
    /\ number = 0 /\ num = <<>> /\ ans = <<>> /\ partAns = <<>> /\ segs = <<>>
    /\ spc = "idle"
    /\ rmin = 0 /\ rmax = 0 /\ rdraw = 0 /\ rval = 0 /\ rpc = "idle"

Next ==
    \/ \E c \in Calls : Generate(c) /\ UNCHANGED <<spellVars, randVars, callerVars>>
    \/ \E c \in Calls : LoadResolve(c) /\ UNCHANGED <<spellVars, randVars, callerVars>>
    \/ \E c \in Calls : LoadReject(c) /\ UNCHANGED <<spellVars, randVars, callerVars>>

Spec == Init /\ [][Next]_vars

(***************************************************************************)
(* Properties.  Helper predicates first.                                   *)
(***************************************************************************)
Contains(s, sub) ==
    \E i \in 1 .. Len(s) - Len(sub) + 1 : SubSeq(s, i, i + Len(sub) - 1) = sub

\* sub occurs in s as whole words: not inside a longer run of letters.
ContainsWords(s, sub) ==
    \E i \in 1 .. Len(s) - Len(sub) + 1 :
        /\ SubSeq(s, i, i + Len(sub) - 1) = sub
        /\ i = 1 \/ s[i - 1] \in {" ", ",", "-"}
        /\ i + Len(sub) - 1 = Len(s) \/ s[i + Len(sub)] \in {" ", ",", "-"}

AndAnd == <<"a", "n", "d", " ", "a", "n", "d">>
CommaComma == <<",", " ", ",">>

Nineteen ==
    << "n", "i", "n", "e", "t", "e", "e", "n" >>
OneHundred ==
    << "o", "n", "e", " ", "h", "u", "n", "d", "r", "e", "d" >>
OneHundredAndFive ==
    << "o", "n", "e", " ", "h", "u", "n", "d", "r", "e", "d", " ", "a", "n",
       "d", " ", "f", "i", "v", "e" >>
OneThousand ==
    << "o", "n", "e", " ", "t", "h", "o", "u", "s", "a", "n", "d" >>
DocblockExample ==
    << "t", "w", "o", " ", "h", "u", "n", "d", "r", "e", "d", " ", "a", "n",
       "d", " ", "s", "i", "x", "t", "y", "-", "f", "o", "u", "r", " ", "m",
       "i", "l", "l", "i", "o", "n", ",", " ", "s", "e", "v", "e", "n", "t",
       "y", "-", "t", "h", "r", "e", "e", " ", "t", "h", "o", "u", "s", "a",
       "n", "d", ",", " ", "f", "o", "u", "r", " ", "h", "u", "n", "d", "r",
       "e", "d", " ", "a", "n", "d", " ", "f", "i", "f", "t", "y", "-", "e",
       "i", "g", "h", "t" >>

\* The declarative reading of lines 372-379: the first segment, then every
\* later segment joined with ", " unless it is the last, joined with " and ".
RECURSIVE JoinFrom(_, _, _)
JoinFrom(acc, s, i) ==
    IF i > Len(s) THEN acc
    ELSE JoinFrom(acc \o (IF i < Len(s) THEN Comma ELSE And) \o s[i], s, i + 1)

JoinSegments(s) == IF s = <<>> THEN <<>> ELSE JoinFrom(s[1], s, 2)

\* C1: spellNumber(0) returns exactly the string "zero".
C1_ZeroSpelledZero == (spc = "done" /\ number = 0) => ans = Zero

\* C2: a leading digit d at a hundred-multiplier position (6 or 9 digits
\* remaining) followed by the digits 00 is spelled "<d> hundred" plus the
\* place suffix, with no " and " in the segment.
C2_HundredsOmitZeroRemainder ==
    LET ds == NumberToString(number)
    IN  (spc = "done" /\ Len(ds) \in {6, 9} /\ ds[2] = 0 /\ ds[3] = 0)
            => /\ segs[1] = At(onesPrefix, ds[1]) \o Hundred \o At(placeSuffix, Len(ds))
               /\ ~Contains(segs[1], And)

\* C3: for every n the spelling is non-empty and contains neither the doubled
\* connective "and and" (as words: "thousand and" is not one) nor ", ,".
C3_NonEmptyNoDoubledConnective ==
    spc = "done"
        => /\ ans # <<>>
           /\ ~ContainsWords(ans, AndAnd)
           /\ ~Contains(ans, CommaComma)

\* C4: the result is the segments, most significant first, joined: the first
\* starts the result, a later segment that is not the last is joined with
\* ", " and the last with " and "; and the five documented spellings.
C4_SegmentsJoined ==
    spc = "done"
        => /\ ans = JoinSegments(segs)
           /\ number = 19 => ans = Nineteen
           /\ number = 100 => ans = OneHundred
           /\ number = 105 => ans = OneHundredAndFive
           /\ number = 1000 => ans = OneThousand
           /\ number = 264073458 => ans = DocblockExample

C4_Witness ==
    /\ spc = "done"
    /\ number = 264073458
    /\ Len(segs) = 4
    /\ ans = DocblockExample

RECURSIVE SumTo(_, _)
SumTo(f, n) == IF n = 0 THEN 0 ELSE f[n] + SumTo(f, n - 1)

\* How many times OpenTypeJs.load has been invoked on this engine.
TotalLoads == SumTo(loadsBy, MaxCalls)

\* C5: over any interleaving of generate() calls the Font Service load is
\* invoked at most once and the font cache is written at most once.
C5_LoadAtMostOnce == TotalLoads <= 1 /\ fontWrites <= 1

IsCompleteDocument(d) ==
    /\ Len(d) >= 3
    /\ d[1].kind = "svg"
    /\ d[2].kind = "rect"
    /\ d[Len(d)].kind = "/svg"
    /\ \A i \in 3 .. Len(d) - 1 : d[i].kind \in {"circle", "curve", "glyph"}

\* C6: a call that resolved returned a complete document and a numeric
\* result; a call that has not resolved returned nothing; a call whose load
\* was rejected has failed, rendered nothing, returned nothing and invoked
\* the load exactly once.
C6_CompleteOrFailed ==
    \A c \in Calls :
        /\ pc[c] = "resolved"
            => /\ IsCompleteDocument(out[c].data)
               /\ out[c].result \in Int
               /\ ~rejected[c]
        /\ pc[c] # "resolved" => out[c] = None
        /\ rejected[c]
            => /\ pc[c] = "failed"
               /\ out[c] = None
               /\ equation[c] = None
               /\ loadsBy[c] = 1

C6_Witness ==
    \E c \in Calls, d \in Calls :
        /\ pc[c] = "failed" /\ rejected[c] /\ loadsBy[c] = 1
        /\ pc[d] = "resolved" /\ IsCompleteDocument(out[d].data)

\* The text a document renders: the characters of its glyph paths in slot
\* order, whatever order the shuffle left them in.
RenderedText(d) ==
    LET glyphs == {i \in 1 .. Len(d) : d[i].kind = "glyph"}
    IN  [k \in 1 .. Cardinality(glyphs) |->
            d[CHOOSE i \in glyphs : d[i].slot = k - 1].char]

\* addend and augend evaluated under the configured operator.
Evaluate(augend, addend, operator) ==
    IF operator = "-" THEN augend - addend ELSE augend + addend

OwnEquationReturned(c) ==
    pc[c] = "resolved"
        => /\ RenderedText(out[c].data) = equation[c].text
           /\ out[c].result
                = Evaluate(equation[c].augend, equation[c].addend, config.mathOperator)

\* C7: in every interleaving, the result a call returns is the evaluation of
\* the equation whose text its own document renders, and what a call has
\* returned is never changed by a step of any call.
C7_CallsDoNotInterfere ==
    [][\A c \in Calls :
          /\ OwnEquationReturned(c)'
          /\ pc[c] = "resolved"
                => pc'[c] = "resolved" /\ out'[c] = out[c]
                       /\ equation'[c] = equation[c]]_vars

C7_Witness ==
    \E c \in Calls, d \in Calls :
        /\ c # d
        /\ loadsBy[c] = 1 /\ loadsBy[d] = 1
        /\ pc[c] = "resolved" /\ pc[d] = "resolved"
        /\ out[c].result # out[d].result
        /\ RenderedText(out[c].data) # RenderedText(out[d].data)

\* C8: the result is augend - addend when the operator is "-" and
\* augend + addend for any other operator, and the text joins the two
\* spellings with " minus " exactly when the result is the difference.
C8_ResultMatchesConnective ==
    \A c \in Calls :
        pc[c] = "resolved"
            => LET e == equation[c]
                   minus == config.mathOperator = "-"
               IN  /\ minus => e.result = e.augend - e.addend
                   /\ ~minus => e.result = e.augend + e.addend
                   /\ e.text = spellNumber(e.augend)
                                   \o (IF minus THEN Minus ELSE Plus)
                                   \o spellNumber(e.addend)
                   /\ Contains(e.text, Minus) <=> minus
                   /\ Contains(e.text, Plus) <=> ~minus
                   /\ out[c].result = e.result

C8_Witness ==
    \E c \in Calls :
        /\ pc[c] = "resolved"
        /\ config.mathOperator = "-"
        /\ equation[c].addend > 0
        /\ out[c].result = equation[c].augend - equation[c].addend
        /\ Contains(RenderedText(out[c].data), Minus)

GrayShades == {<<"#", h, h, h>> : h \in {"1", "2", "3", "4", "5", "6", "7", "8"}}

\* C9: getRandomInt(min, max) returns a value of [min, max] for every draw,
\* and every sampled value lies in its inclusive range: the operands in the
\* configured ranges, a dot in [1, width] x [1, height], a line's start x in
\* [1, 20], end x in [width - 20, width], control-point x within 20 of
\* width / 2, every y in [1, height], every gray a hex digit in [1, 8].
C9_SamplesWithinBounds ==
    /\ \A min \in RandMins, span \in 0 .. MaxSpan, r \in 0 .. RandN - 1 :
          getRandomInt(Halves(min), Halves(min + span), r) \in min .. min + span
    /\ \A c \in Calls :
        pc[c] = "resolved"
            => LET e == equation[c]
                   d == out[c].data
                   width == config.outputWidth
                   height == config.outputHeight
               IN  /\ config.mathAugendMin <= e.augend
                   /\ e.augend <= config.mathAugendMax
                   /\ config.mathAddendMin <= e.addend
                   /\ e.addend <= config.mathAddendMax
                   /\ \A i \in 1 .. Len(d) :
                        /\ d[i].kind = "circle"
                            => /\ d[i].cx \in 1 .. width
                               /\ d[i].cy \in 1 .. height
                               /\ d[i].fill \in GrayShades
                        /\ d[i].kind = "curve"
                            => /\ d[i].start[1] \in 1 .. 20
                               /\ d[i].end[1] \in (width - 20) .. width
                               /\ 2 * d[i].mid1[1] - width \in -40 .. 40
                               /\ 2 * d[i].mid2[1] - width \in -40 .. 40
                               /\ d[i].start[2] \in 1 .. height
                               /\ d[i].end[2] \in 1 .. height
                               /\ d[i].mid1[2] \in 1 .. height
                               /\ d[i].mid2[2] \in 1 .. height
                               /\ d[i].stroke \in GrayShades

\* Both endpoints of a proper range are drawn, and noise was rendered.
C9_Witness ==
    \E c \in Calls, d \in Calls :
        /\ pc[c] = "resolved" /\ pc[d] = "resolved"
        /\ config.mathAugendMin < config.mathAugendMax
        /\ equation[c].augend = config.mathAugendMin
        /\ equation[d].augend = config.mathAugendMax
        /\ \E i \in 1 .. Len(out[c].data) : out[c].data[i].kind = "circle"

\* How many of the RandN evenly spaced draws getRandomInt maps to v.
Preimages(min, max, v) ==
    Cardinality({r \in 0 .. RandN - 1 : getRandomInt(Halves(min), Halves(max), r) = v})

\* C10: every integer of [min, max] is drawn with the same probability: over
\* the evenly spaced draws each has the same number of preimages.
C10_Uniform ==
    rpc = "done"
        => \A v \in rmin .. rmax, w \in rmin .. rmax :
              Preimages(rmin, rmax, v) = Preimages(rmin, rmax, w)

\* The primitives each seed renders, before the shuffle.
Rendered ==
    [fnt \in Fonts |->
        [cfg \in Configs |->
            [seed \in Seeds |->
                Paths(cfg, fnt, seed, generateMathEquation(cfg, seed))]]]

Count(x, s) == Cardinality({i \in 1 .. Len(s) : s[i] = x})

IsPermutation(s, t) ==
    /\ Len(s) = Len(t)
    /\ \A i \in 1 .. Len(t) : Count(t[i], s) = Count(t[i], t)

Body(d) == SubSeq(d, 3, Len(d) - 1)

OfKind(d, kind) == {i \in 1 .. Len(d) : d[i].kind = kind}

\* C11: a returned document is the envelope, then exactly one background
\* rectangle filled with colorBackground, then a permutation of the
\* primitives the call rendered: noiseDots circles, noiseLines curves and one
\* glyph path per character of the equation text, none dropped, duplicated
\* or altered by the shuffle.
C11_ShuffleIsPermutation ==
    \A c \in Calls :
        pc[c] = "resolved"
            => LET d == out[c].data
               IN  /\ d[1].kind = "svg" /\ d[Len(d)].kind = "/svg"
                   /\ OfKind(d, "rect") = {2}
                   /\ d[2].fill = config.colorBackground
                   /\ Cardinality(OfKind(d, "circle")) = config.noiseDots
                   /\ Cardinality(OfKind(d, "curve")) = config.noiseLines
                   /\ Cardinality(OfKind(d, "glyph")) = Len(equation[c].text)
                   /\ Len(d) = 3 + config.noiseDots + config.noiseLines
                                  + Len(equation[c].text)
                   /\ \E seed \in Seeds :
                        /\ Finished[font][config][seed].equation = equation[c]
                        /\ IsPermutation(Body(d), Rendered[font][config][seed])

\* The shuffle has acted: a glyph path was moved in front of the dot that
\* was rendered first.
C11_Witness ==
    \E c \in Calls :
        /\ pc[c] = "resolved"
        /\ config.noiseDots > 0
        /\ out[c].data[3].kind = "glyph"
        /\ OfKind(out[c].data, "circle") # {}

\* The glyph paths of document d that render character number k (from 1).
PathsOfSlot(d, k) == {i \in OfKind(d, "glyph") : d[i].slot = k - 1}

\* Path p of character number k of a text of len characters is placed with
\* its left edge fontScale * advance / 2 left of the slot centre
\* k * (width - 2) / (len + 1): over the denominator 2 * (len + 1) * unitsPerEm,
\* centre - left = (len + 1) * fontSize * advance.
PlacedWithAdvance(p, k, len, advance) ==
    /\ p.left.d = 2 * (len + 1) * font.unitsPerEm
    /\ 2 * font.unitsPerEm * k * (config.outputWidth - 2) - p.left.n
            = (len + 1) * config.fontSize * advance

IsAbsent(ch) == ch \notin DOMAIN font.glyphs

\* Each character of the text has exactly one glyph path among `glyphs`.
OnePathPerCharacter(d, glyphs, text) ==
    /\ Cardinality(glyphs) = Len(text)
    /\ {d[i].slot : i \in glyphs} = 0 .. Len(text) - 1

DocumentedKeys == DOMAIN Defaults

Supplies(c, k) == IF c = None THEN FALSE ELSE k \in DOMAIN c

Constructing == selfConfig = "literal" /\ selfConfig' # "literal"

C14_EveryIterationConsumes ==
    [][/\ (spc = "loop" /\ Len(num) > 0) => Len(num') < Len(num)
       /\ spc = "loop" => Len(num) \in 0 .. 9
       /\ (spc = "loop" /\ Len(num) \in {6, 9})
            => LET value == ParseInt(SubstrLen(num, 1, 2))
               IN  value < 100 /\ Len(SpellEntry(value)) \notin {6, 9}
       /\ Len(segs') <= Len(SpellEntry(number))]_vars

\* The largest input has returned, after two iterations with a recursive
\* call and two without.
C14_Witness ==
    /\ spc = "done"
    /\ number = 999999999
    /\ num = <<>>
    /\ Len(segs) = 4

Starts(c) == pc[c] = "idle" /\ pc'[c] # "idle"

\* C15: a load that fails leaves the font cache as it was; a call started
\* with the cache empty attempts the load; a cached font is never reset to
\* empty, and a call started with a font cached renders at once, invoking
\* no load.
C15_FailedLoadKeepsCache ==
    [][\A c \in Calls :
          /\ (~rejected[c] /\ rejected'[c]) => font' = font
          /\ font # Null => font' # Null
          /\ (font = Null /\ Starts(c))
                => pc'[c] = "loading" /\ loadsBy'[c] = loadsBy[c] + 1
          /\ (font # Null /\ Starts(c))
                => pc'[c] = "resolved" /\ loadsBy' = loadsBy]_vars

\* The first call's load failed; the second call loaded for itself and
\* resolved, and the font it cached is still there.
C15_Witness ==
    /\ rejected[1] /\ pc[1] = "failed"
    /\ pc[2] = "resolved" /\ loadsBy[2] = 1
    /\ font # Null /\ fontWrites = 1

====
